---- MODULE Spec2Model ----
(***************************************************************************)
(* The cache-or-fetch resolution funnel of robespierre                     *)
(* (crates/robespierre/src/model.rs): ChannelId::channel, ServerId::server *)
(* and UserId::user, run by concurrent asynchronous tasks against one      *)
(* shared cache and an external network collaborator.                      *)
(*                                                                         *)
(* Granularity.  An async fn runs synchronously between the points where   *)
(* its future is pending.  The model has one step per such stretch:        *)
(*   call  : entry of the fn, the cache lookup and, on a miss, the sending *)
(*           of the fetch request (lines 155-165);                         *)
(*   fetch : the network fetch completes, with Err (the `?` returns it) or *)
(*           with Ok (commit_to_cache, then the return; lines 166-168).    *)
(* The cache port's get and commit are local and atomic, so the fetch is   *)
(* the one place where a call waits and where its future may be dropped    *)
(* (cancelled).                                                            *)
(*                                                                         *)
(* Beside the funnel (specification Spec) the module models                *)
(*   SpecWire    : the wire encoding of robespierre-models/src/events.rs,  *)
(*                 ClientToServerEvent and ServerToClientEvent;            *)
(*   SpecPatch   : the application of an update event to a cached entity;  *)
(*   SpecDerived : Message::server and ChannelId::server, the accessors    *)
(*                 composed of two resolutions;                            *)
(*   SpecReply   : Message::reply and Message::reply_ping.                 *)
(***************************************************************************)
EXTENDS Naturals, FiniteSets, Sequences

\* ------------------------------------------------------------- bounds
NumTasks == 2
NumIds == 1
NumVals == 2
NumErrs == 2
MaxCalls == 2

Tasks == 1..NumTasks
Ids == 1..NumIds
Vals == 1..NumVals
Errs == 1..NumErrs

\* ------------------------------------------------------------- data
\* The entity kinds that have a resolver in model.rs.
Resolvers == {"channel", "server", "user"}

\* An entity: its own id and its payload.  Absent stands for Option::None.
Entity(i, v) == [id |-> i, val |-> v]
Absent == Entity(0, 0)
Entities == {Entity(i, v) : i \in Ids, v \in Vals}

\* Result<T>: Ok(entity), Err(error), or nothing returned yet.
NoResult == [tag |-> "none", ent |-> Absent, err |-> 0]
Ok(e) == [tag |-> "ok", ent |-> e, err |-> 0]
Err(x) == [tag |-> "err", ent |-> Absent, err |-> x]

\* The three build/run configurations of the cache:
\*   "off"  : feature "cache" disabled (cfg(not(feature = "cache")));
\*   "none" : feature enabled, ctx.cache() is None;
\*   "some" : feature enabled, ctx.cache() is Some(cache).
Modes == {"off", "none", "some"}

EmptyCache == [k \in Resolvers |-> [i \in Ids |-> Absent]]

VARIABLES mode, cache, task, calls, lastCommit

\* link    : the last message on the connection and what it decoded to;
\* mirror  : cached entities with their clearable fields;
\* applied : the last update event applied to mirror, and mirror before it;
\* acc     : per task, the progress of a composed accessor;
\* outbox  : the send-message requests handed to the HTTP client.
VARIABLES link, mirror, applied, acc, outbox

vars == <<mode, cache, task, calls, lastCommit, link, mirror, applied, acc, outbox>>

funnel == <<mode, cache, task, calls, lastCommit>>

quiet == <<link, mirror, applied, acc, outbox>>

\* A task that is running no resolver.
Idle ==
    [pc |-> "idle", kind |-> "channel", id |-> 0, nfetch |-> 0,
     fetched |-> Absent, ferr |-> 0, result |-> NoResult, touched |-> FALSE]

\* ------------------------------------------------------------- cache port
\* cache.get_channel / get_server / get_user: a local lookup in the
\* partition of the kind; Absent when there is no entry.
get_channel(c, i) == c["channel"][i]

get_server(c, i) == c["server"][i]

get_user(c, i) == c["user"][i]

\* commit evicting an entry it finds in place of overwriting it.
commit_evict(c, k, e) ==
    [c EXCEPT ![k][e.id] = IF c[k][e.id] = Absent THEN e ELSE Absent]

\* The cache's commit of an entity of kind k: insert or overwrite under the
\* entity's own id.
commit(c, k, e) == [c EXCEPT ![k][e.id] = e]

\* robespierre_cache::CommitToCache::commit_to_cache(self, ctx) with the
\* cache feature enabled: commits when ctx has a cache, and returns self.
CommitToCache(m, c, k, e) ==
    [cache |-> IF m = "some" THEN commit(c, k, e) ELSE c, ret |-> e]

\* The no-cache commit_to_cache returning a default value in place of self.
NoCacheCommitToCache_default(c, e) == [cache |-> c, ret |-> Absent]

\* commit_to_cache of the local trait used when the cache feature is
\* disabled: the body is `self`.
NoCacheCommitToCache(c, e) == [cache |-> c, ret |-> e]

\* `.commit_to_cache(ctx)`: which trait is in scope is decided by the feature.
commit_to_cache(m, c, k, e) ==
    IF m = "off" THEN NoCacheCommitToCache(c, e) ELSE CommitToCache(m, c, k, e)

\* `?` replaced by a handler that returns one generic error.
Question_generic(x) == Err(1)

\* `?` on the fetch's Result: an Err leaves the function at once with that
\* error.
Question(x) == Err(x)

\* ------------------------------------------------------------- callers
\* The record of a task entering a resolver of kind k for id i.
Begin(k, i) == [Idle EXCEPT !.kind = k, !.id = i]

\* A task calls a resolver when it runs none: at first, after it received the
\* outcome of its previous call, or after it dropped its previous call.  Tasks
\* are interchangeable and are numbered in the order of their first calls.
CanCall(t) ==
    /\ task[t].pc \in {"idle", "done", "cancelled"}
    /\ \A u \in Tasks : u < t => task[u].pc # "idle"
    /\ calls < MaxCalls

\* The tasks after task t finished with record r, having handed id i of kind k
\* to commit_to_cache: when that wrote to a cache, every other task that holds
\* an Ok outcome for that id has seen an update of the id since its call.
Finish(t, r, k, i) ==
    [u \in Tasks |->
        IF u = t THEN r
        ELSE IF /\ mode = "some"
                /\ task[u].pc = "done" /\ task[u].result.tag = "ok"
                /\ task[u].kind = k /\ task[u].id = i
             THEN [task[u] EXCEPT !.touched = TRUE]
             ELSE task[u]]

\* ------------------------------------------------------------- ChannelId::channel
\* channel without its early return: the lookup's answer is ignored.
channel_always_fetch(t, i) ==
    /\ CanCall(t)
    /\ calls' = calls + 1
    /\ task' = [task EXCEPT ![t] =
                  [Begin("channel", i) EXCEPT !.pc = "fetch", !.nfetch = 1]]
    /\ UNCHANGED <<mode, cache, lastCommit>>

channel(t, i) ==
    /\ CanCall(t)
    /\ calls' = calls + 1
    /\ LET hit == IF mode = "some" THEN get_channel(cache, i) ELSE Absent
           b == Begin("channel", i)
       IN task' = [task EXCEPT ![t] =
                     IF hit # Absent
                     THEN [b EXCEPT !.pc = "done", !.result = Ok(hit)]
                     ELSE [b EXCEPT !.pc = "fetch", !.nfetch = 1]]
    /\ UNCHANGED <<mode, cache, lastCommit>>

\* channel returning what it fetched without `.commit_to_cache(ctx)`.
fetch_channel_ok_nocommit(t, v) ==
    /\ task[t].pc = "fetch" /\ task[t].kind = "channel"
    /\ LET e == Entity(task[t].id, v)
       IN task' = [task EXCEPT ![t].pc = "done", ![t].fetched = e,
                               ![t].result = Ok(e)]
    /\ UNCHANGED <<mode, cache, calls, lastCommit>>

fetch_channel_ok(t, v) ==
    /\ task[t].pc = "fetch" /\ task[t].kind = "channel"
    /\ LET e == Entity(task[t].id, v)
           r == commit_to_cache(mode, cache, "channel", e)
       IN /\ cache' = r.cache
          /\ lastCommit' = IF mode = "some"
                           THEN [lastCommit EXCEPT !["channel"][e.id] = e]
                           ELSE lastCommit
          /\ task' = Finish(t, [task[t] EXCEPT !.pc = "done", !.fetched = e,
                                               !.result = Ok(r.ret)],
                            "channel", e.id)
    /\ UNCHANGED <<mode, calls>>

\* channel fetching again when its fetch failed.
fetch_channel_err_retry(t, x) ==
    /\ task[t].pc = "fetch" /\ task[t].kind = "channel"
    /\ task' = [task EXCEPT ![t].ferr = x, ![t].nfetch = task[t].nfetch + 1]
    /\ UNCHANGED <<mode, cache, calls, lastCommit>>

fetch_channel_err(t, x) ==
    /\ task[t].pc = "fetch" /\ task[t].kind = "channel"
    /\ task' = [task EXCEPT ![t].pc = "done", ![t].ferr = x,
                            ![t].result = Question(x)]
    /\ UNCHANGED <<mode, cache, calls, lastCommit>>

\* ------------------------------------------------------------- ServerId::server
\* server looking its id up among the channels.
server_reads_channel(t, i) ==
    /\ CanCall(t)
    /\ calls' = calls + 1
    /\ LET hit == IF mode = "some" THEN get_channel(cache, i) ELSE Absent
           b == Begin("server", i)
       IN task' = [task EXCEPT ![t] =
                     IF hit # Absent
                     THEN [b EXCEPT !.pc = "done", !.result = Ok(hit)]
                     ELSE [b EXCEPT !.pc = "fetch", !.nfetch = 1]]
    /\ UNCHANGED <<mode, cache, lastCommit>>

server(t, i) ==
    /\ CanCall(t)
    /\ calls' = calls + 1
    /\ LET hit == IF mode = "some" THEN get_server(cache, i) ELSE Absent
           b == Begin("server", i)
       IN task' = [task EXCEPT ![t] =
                     IF hit # Absent
                     THEN [b EXCEPT !.pc = "done", !.result = Ok(hit)]
                     ELSE [b EXCEPT !.pc = "fetch", !.nfetch = 1]]
    /\ UNCHANGED <<mode, cache, lastCommit>>

\* server returning what it fetched without `.commit_to_cache(ctx)`.
fetch_server_ok_nocommit(t, v) ==
    /\ task[t].pc = "fetch" /\ task[t].kind = "server"
    /\ LET e == Entity(task[t].id, v)
       IN task' = [task EXCEPT ![t].pc = "done", ![t].fetched = e,
                               ![t].result = Ok(e)]
    /\ UNCHANGED <<mode, cache, calls, lastCommit>>

fetch_server_ok(t, v) ==
    /\ task[t].pc = "fetch" /\ task[t].kind = "server"
    /\ LET e == Entity(task[t].id, v)
           r == commit_to_cache(mode, cache, "server", e)
       IN /\ cache' = r.cache
          /\ lastCommit' = IF mode = "some"
                           THEN [lastCommit EXCEPT !["server"][e.id] = e]
                           ELSE lastCommit
          /\ task' = Finish(t, [task[t] EXCEPT !.pc = "done", !.fetched = e,
                                               !.result = Ok(r.ret)],
                            "server", e.id)
    /\ UNCHANGED <<mode, calls>>

fetch_server_err(t, x) ==
    /\ task[t].pc = "fetch" /\ task[t].kind = "server"
    /\ task' = [task EXCEPT ![t].pc = "done", ![t].ferr = x,
                            ![t].result = Question(x)]
    /\ UNCHANGED <<mode, cache, calls, lastCommit>>

\* ------------------------------------------------------------- UserId::user
\* user without its cache lookup.
user_always_fetch(t, i) ==
    /\ CanCall(t)
    /\ calls' = calls + 1
    /\ task' = [task EXCEPT ![t] =
                  [Begin("user", i) EXCEPT !.pc = "fetch", !.nfetch = 1]]
    /\ UNCHANGED <<mode, cache, lastCommit>>

user(t, i) ==
    /\ CanCall(t)
    /\ calls' = calls + 1
    /\ LET hit == IF mode = "some" THEN get_user(cache, i) ELSE Absent
           b == Begin("user", i)
       IN task' = [task EXCEPT ![t] =
                     IF hit # Absent
                     THEN [b EXCEPT !.pc = "done", !.result = Ok(hit)]
                     ELSE [b EXCEPT !.pc = "fetch", !.nfetch = 1]]
    /\ UNCHANGED <<mode, cache, lastCommit>>

\* user looking the id up again after its fetch, and returning the entry found
\* (another call's commit) in place of committing its own fetch.
fetch_user_ok_recheck(t, v) ==
    /\ task[t].pc = "fetch" /\ task[t].kind = "user"
    /\ LET e == Entity(task[t].id, v)
           seen == IF mode = "some" THEN get_user(cache, e.id) ELSE Absent
           r == commit_to_cache(mode, cache, "user", e)
       IN IF seen # Absent
          THEN /\ task' = [task EXCEPT ![t].pc = "done", ![t].fetched = e,
                                       ![t].result = Ok(seen)]
               /\ UNCHANGED <<cache, lastCommit>>
          ELSE /\ cache' = r.cache
               /\ lastCommit' = IF mode = "some"
                                THEN [lastCommit EXCEPT !["user"][e.id] = e]
                                ELSE lastCommit
               /\ task' = Finish(t, [task[t] EXCEPT !.pc = "done",
                                                    !.fetched = e,
                                                    !.result = Ok(r.ret)],
                                 "user", e.id)
    /\ UNCHANGED <<mode, calls>>

fetch_user_ok(t, v) ==
    /\ task[t].pc = "fetch" /\ task[t].kind = "user"
    /\ LET e == Entity(task[t].id, v)
           r == commit_to_cache(mode, cache, "user", e)
       IN /\ cache' = r.cache
          /\ lastCommit' = IF mode = "some"
                           THEN [lastCommit EXCEPT !["user"][e.id] = e]
                           ELSE lastCommit
          /\ task' = Finish(t, [task[t] EXCEPT !.pc = "done", !.fetched = e,
                                               !.result = Ok(r.ret)],
                            "user", e.id)
    /\ UNCHANGED <<mode, calls>>

fetch_user_err(t, x) ==
    /\ task[t].pc = "fetch" /\ task[t].kind = "user"
    /\ task' = [task EXCEPT ![t].pc = "done", ![t].ferr = x,
                            ![t].result = Question(x)]
    /\ UNCHANGED <<mode, cache, calls, lastCommit>>

\* ------------------------------------------------------------- tasks
\* Cancel undoing the call: the entry of the id it was resolving is removed.
Cancel_rollback(t) ==
    /\ task[t].pc = "fetch"
    /\ task' = [task EXCEPT ![t] = [Idle EXCEPT !.pc = "cancelled"]]
    /\ cache' = [cache EXCEPT ![task[t].kind][task[t].id] = Absent]
    /\ UNCHANGED <<mode, calls, lastCommit>>

\* The caller drops the future of a resolver that is waiting for its fetch:
\* the task runs no further step of that call.
Cancel(t) ==
    /\ task[t].pc = "fetch"
    /\ task' = [task EXCEPT ![t] = [Idle EXCEPT !.pc = "cancelled"]]
    /\ UNCHANGED <<mode, cache, calls, lastCommit>>

\* ------------------------------------------------------------- the accessor surface
\* The resolvers of model.rs by entity kind: ChannelIdExt::channel,
\* ServerIdExt::server and UserIdExt::user.  There is no other.
ResolverCall(t, k, i) ==
    \/ k = "channel" /\ channel(t, i)
    \/ k = "server" /\ server(t, i)
    \/ k = "user" /\ user(t, i)

ResolverFetchOk(t, k, v) ==
    \/ k = "channel" /\ fetch_channel_ok(t, v)
    \/ k = "server" /\ fetch_server_ok(t, v)
    \/ k = "user" /\ fetch_user_ok(t, v)

ResolverFetchErr(t, k, x) ==
    \/ k = "channel" /\ fetch_channel_err(t, x)
    \/ k = "server" /\ fetch_server_err(t, x)
    \/ k = "user" /\ fetch_user_err(t, x)

\* ------------------------------------------------------------- event protocol
\* ClientToServerEvent (events.rs 14-38): the variants and their fields.
OutboundVariants ==
    {"Authenticate", "AuthenticateBot", "BeginTyping", "EndTyping", "Ping"}

OutboundFields(v) ==
    CASE v = "Authenticate" -> {"user_id", "session_token"}
      [] v = "AuthenticateBot" -> {"token"}
      [] v \in {"BeginTyping", "EndTyping"} -> {"channel"}
      [] v = "Ping" -> {"time", "data"}

\* The discriminator without the rename of line 22.
WireTag_norename(v) == v

\* #[serde(tag = "type")] writes the variant's name, or its
\* #[serde(rename = ...)], under the key "type".
WireTag(v) == IF v = "AuthenticateBot" THEN "Authenticate" ELSE v

\* ServerToClientEvent (events.rs 50-156): the variants ...
InboundVariants ==
    {"Error", "Authenticated", "Pong", "Ready", "Message", "MessageUpdate",
     "MessageDelete", "ChannelCreate", "ChannelUpdate", "ChannelDelete",
     "ChannelGroupJoin", "ChannelGroupLeave", "ChannelStartTyping",
     "ChannelStopTyping", "ChannelAck", "ServerUpdate", "ServerDelete",
     "ServerMemberUpdate", "ServerMemberJoin", "ServerMemberLeave",
     "ServerRoleUpdate", "ServerRoleDelete", "UserUpdate", "UserRelationship"}

\* ... those whose payload is a patch ...
UpdateVariants ==
    {"MessageUpdate", "ChannelUpdate", "ServerUpdate", "ServerMemberUpdate",
     "ServerRoleUpdate", "UserUpdate"}

\* ... those that declare a field `clear` ...
ClearVariants ==
    {"ChannelUpdate", "ServerUpdate", "ServerMemberUpdate",
     "ServerRoleUpdate", "UserUpdate"}

\* The field of ServerToClientEvent::Error under another name.
ErrorFields_message == {"message"}

\* The field of ServerToClientEvent::Error (lines 53-55).
ErrorFields == {"error"}

\* ... and the keys of each variant's payload.  A #[serde(flatten)] member
\* contributes the keys of its type: ReadyEvent's four (lines 42-47), and
\* "<Message>" / "<Channel>" for the fields of Message and of Channel.
InboundFields(v) ==
    CASE v = "Error" -> ErrorFields
      [] v = "Authenticated" -> {}
      [] v = "Pong" -> {"time"}
      [] v = "Ready" -> {"users", "servers", "channels", "members"}
      [] v = "Message" -> {"<Message>"}
      [] v = "MessageUpdate" -> {"id", "channel", "data"}
      [] v = "MessageDelete" -> {"id", "channel"}
      [] v = "ChannelCreate" -> {"<Channel>"}
      [] v \in {"ChannelUpdate", "ServerUpdate", "ServerMemberUpdate", "UserUpdate"} ->
            {"id", "data", "clear"}
      [] v \in {"ChannelDelete", "ServerDelete"} -> {"id"}
      [] v \in {"ChannelGroupJoin", "ChannelGroupLeave", "ChannelStartTyping",
                "ChannelStopTyping", "ServerMemberJoin", "ServerMemberLeave"} ->
            {"id", "user"}
      [] v = "ChannelAck" -> {"id", "user", "message_id"}
      [] v = "ServerRoleUpdate" -> {"id", "role_id", "data", "clear"}
      [] v = "ServerRoleDelete" -> {"id", "role_id"}
      [] v = "UserRelationship" -> {"id", "user", "status"}

\* No field has a default.
Defaulted_none(v) == {}

\* The fields marked #[serde(default)]: the `clear` of the update variants.
Defaulted(v) == IF v \in ClearVariants THEN {"clear"} ELSE {}

\* A field without a default must be on the wire.
Required(v) == InboundFields(v) \ Defaulted(v)

\* The tags of a field enumeration (ChannelField, ServerField, MemberField,
\* RoleField, UserField): one tag per clearable field of the entity.
FieldTags == {"nickname", "status"}

\* What the key "clear" may hold on the wire: nothing (the key is absent),
\* null, one tag, an array of both tags, or a string that is no tag.
ClearWire == {"absent", "null", "both", "bogus"} \cup FieldTags

\* A JSON object on the wire: its "type", the other keys it has (but for
\* "clear"), the value under "clear", and the one text its "error" and
\* "message" keys hold.
Present(w) == w.keys \cup (IF w.clear = "absent" THEN {} ELSE {"clear"})

\* An array is read as its first tag.
OptionField_first(c) ==
    CASE c \in {"absent", "null"} -> [ok |-> TRUE, clear |-> "none"]
      [] c \in FieldTags -> [ok |-> TRUE, clear |-> c]
      [] c = "both" -> [ok |-> TRUE, clear |-> "nickname"]
      [] OTHER -> [ok |-> FALSE, clear |-> "none"]

\* Deserializing `clear: Option<ChannelField>`: absent (by the default) or
\* null is None, a tag is Some(tag), anything else is an error.
OptionField(c) ==
    CASE c \in {"absent", "null"} -> [ok |-> TRUE, clear |-> "none"]
      [] c \in FieldTags -> [ok |-> TRUE, clear |-> c]
      [] OTHER -> [ok |-> FALSE, clear |-> "none"]

\* The fields an event clears.
ClearSet(c) == IF c = "none" THEN {} ELSE {c}

NoEvent == [tag |-> "none", variant |-> "none", clear |-> "none", text |-> 0]
DecodeErr == [tag |-> "err", variant |-> "none", clear |-> "none", text |-> 0]
DecodeOk(v, c, x) == [tag |-> "ok", variant |-> v, clear |-> c, text |-> x]

\* An unknown "type" falls to a unit variant.
VariantOf_other(ty) == IF ty \in InboundVariants THEN ty ELSE "Authenticated"

\* The variant a "type" selects: the one of that name, or none.  No variant
\* is marked #[serde(other)].
VariantOf(ty) == IF ty \in InboundVariants THEN ty ELSE "none"

\* What the derived Deserialize of ServerToClientEvent makes of a message:
\* the variant by its tag, every field without a default required, keys that
\* are no field of the variant ignored.
Deserialize(w) ==
    LET v == VariantOf(w.type)
        c == IF "clear" \in InboundFields(v)
             THEN OptionField(w.clear)
             ELSE [ok |-> TRUE, clear |-> "none"]
    IN  IF v = "none" THEN DecodeErr
        ELSE IF ~(Required(v) \subseteq Present(w)) THEN DecodeErr
        ELSE IF ~c.ok THEN DecodeErr
        ELSE DecodeOk(v, c.clear, IF v = "Error" THEN w.text ELSE 0)

\* What the derived Serialize of ClientToServerEvent writes.
Serialize(v) ==
    [type |-> WireTag(v), keys |-> OutboundFields(v), clear |-> "absent", text |-> 0]

\* The messages a server may send: of a variant or of an unknown type, with
\* the variant's keys but at most one, with or without keys that are no field
\* of the variant, and with any value under "clear".
WireKeys == UNION {InboundFields(v) : v \in InboundVariants} \ {"clear"}

Payload(ty) == IF ty \in InboundVariants THEN InboundFields(ty) \ {"clear"} ELSE {}

Wires ==
    {[type |-> ty, keys |-> (Payload(ty) \ {d}) \cup x, clear |-> c, text |-> n] :
        ty \in InboundVariants \cup {"Bogus"}, d \in WireKeys \cup {"none"},
        x \in SUBSET {"message", "extra"}, c \in ClearWire, n \in Vals}

NoWire == [type |-> "none", keys |-> {}, clear |-> "absent", text |-> 0]

NoLink == [dir |-> "none", variant |-> "none", wire |-> NoWire, event |-> NoEvent]

\* A message arrives and is decoded.  Decoding reads the message alone, so
\* one message per behaviour shows all there is.
ReceiveEvent(w) ==
    /\ link.dir = "none"
    /\ link' = [dir |-> "in", variant |-> "none", wire |-> w, event |-> Deserialize(w)]
    /\ UNCHANGED <<funnel, mirror, applied, acc, outbox>>

\* The client encodes an event of variant v and sends it.
SendEvent(v) ==
    /\ link.dir = "none"
    /\ link' = [dir |-> "out", variant |-> v, wire |-> Serialize(v), event |-> NoEvent]
    /\ UNCHANGED <<funnel, mirror, applied, acc, outbox>>

\* ------------------------------------------------------------- patch and clear
\* A cached entity with clearable fields: its id and, per field, a value or
\* 0 for the empty value (None).  In a Partial, 0 is a field the patch leaves out.
PatchIds == 1..(NumIds + 1)
FieldVals == 0..NumVals

Record(i, fs) == [id |-> i, fields |-> fs]
NoRecord == Record(0, [f \in FieldTags |-> 0])

Mirrors ==
    {[i \in PatchIds |-> IF p[i] THEN Record(i, fs[i]) ELSE NoRecord] :
        p \in [PatchIds -> BOOLEAN], fs \in [PatchIds -> [FieldTags -> FieldVals]]}

EmptyMirror == [i \in PatchIds |-> NoRecord]

\* The clears applied before the patch: the patch wins.
applyPatch_clear_first(existing, patch, clears) ==
    Record(existing.id,
           [f \in FieldTags |->
               IF patch[f] # 0 THEN patch[f]
               ELSE IF f \in clears THEN 0
               ELSE existing.fields[f]])

\* The patch applied to a fresh record instead of the existing one.
applyPatch_fresh(existing, patch, clears) ==
    Record(existing.id,
           [f \in FieldTags |-> IF f \in clears THEN 0 ELSE patch[f]])

\* applyPatch: start from the existing entity, overwrite each field the patch
\* holds, then reset each field named in clears; other fields stay.
applyPatch(existing, patch, clears) ==
    Record(existing.id,
           [f \in FieldTags |->
               IF f \in clears THEN 0
               ELSE IF patch[f] # 0 THEN patch[f]
               ELSE existing.fields[f]])

NoUpdate == [id |-> 0, data |-> [f \in FieldTags |-> 0], clear |-> "none"]

NoApplied == [done |-> FALSE, ev |-> NoUpdate, before |-> EmptyMirror]

\* An update event {id, data, clear} arrives with c under "clear" and, once
\* decoded, is applied to the cached entity of its id; for an id that is not
\* cached the patch is an error and writes nothing.
on_update(i, d, c) ==
    LET o == OptionField(c)
    IN  /\ ~applied.done
        /\ o.ok
        /\ mirror' = IF mirror[i] = NoRecord THEN mirror
                     ELSE [mirror EXCEPT ![i] = applyPatch(@, d, ClearSet(o.clear))]
        /\ applied' = [done |-> TRUE,
                       ev |-> [id |-> i, data |-> d, clear |-> o.clear],
                       before |-> mirror]
        /\ UNCHANGED <<funnel, link, acc, outbox>>

\* ------------------------------------------------------------- composed accessors
\* Channel::server_id(): the server a channel belongs to, or 0 (None) for a
\* channel outside any server.  The payload of a channel decides it.
server_id(ch) == IF ch.val = 1 THEN 0 ELSE ((ch.val - 2) % NumIds) + 1

\* A message: its id and the id of its channel.
MessageIds == 1..NumVals
Messages == {[id |-> n, channel |-> c] : n \in MessageIds, c \in Ids}

\* Result<Option<Server>>: Ok(Some(server)), Ok(None), Err(error), or nothing yet.
AccNone == [tag |-> "none", ent |-> Absent, err |-> 0]
AccOkSome(e) == [tag |-> "ok_some", ent |-> e, err |-> 0]
AccOkNone == [tag |-> "ok_none", ent |-> Absent, err |-> 0]
AccErr(x) == [tag |-> "err", ent |-> Absent, err |-> x]

\* A task's composed accessor: where it is, the fetches and the server
\* resolutions it made so far, what the channel resolution returned and how
\* many of its resolutions found their entity cached.  Message::server and
\* ChannelId::server run the same steps and share the record.
AccIdle ==
    [pc |-> "idle", fetches |-> 0, lookups |-> 0,
     chan |-> NoResult, hits |-> 0, result |-> AccNone]

Cached(k, i) == mode = "some" /\ cache[k][i] # Absent

\* Message::server (115-119): `self.channel(ctx).await?`, which is
\* MessageExt::channel (107-109), i.e. ChannelId::channel of the message's channel.
Message_server(t, m) ==
    /\ acc[t].pc \in {"idle", "done"}
    /\ channel(t, m.channel)
    /\ acc' = [acc EXCEPT ![t] =
                 [AccIdle EXCEPT !.pc = "channel",
                                 !.hits = IF Cached("channel", m.channel) THEN 1 ELSE 0]]
    /\ UNCHANGED <<link, mirror, applied, outbox>>

\* ChannelId::server (175-177): `self.channel(ctx).await?`.
ChannelId_server(t, i) ==
    /\ acc[t].pc \in {"idle", "done"}
    /\ channel(t, i)
    /\ acc' = [acc EXCEPT ![t] =
                 [AccIdle EXCEPT !.pc = "channel",
                                 !.hits = IF Cached("channel", i) THEN 1 ELSE 0]]
    /\ UNCHANGED <<link, mirror, applied, outbox>>

\* Channel::server that answers Ok(None) to a failed channel resolution.
Channel_server_swallow(t) ==
    /\ acc[t].pc = "channel" /\ task[t].pc = "done"
    /\ LET r == task[t].result
           sid == server_id(r.ent)
           a == [acc[t] EXCEPT !.fetches = task[t].nfetch, !.chan = r]
       IN  IF r.tag = "err" \/ sid = 0
           THEN /\ acc' = [acc EXCEPT ![t] = [a EXCEPT !.pc = "done", !.result = AccOkNone]]
                /\ UNCHANGED funnel
           ELSE /\ server(t, sid)
                /\ acc' = [acc EXCEPT ![t] =
                             [a EXCEPT !.pc = "server", !.lookups = 1,
                                       !.hits = @ + IF Cached("server", sid) THEN 1 ELSE 0]]
    /\ UNCHANGED <<link, mirror, applied, outbox>>

\* The channel resolution returned.  Its Err is returned by the `?`; on Ok,
\* Channel::server (129-136) returns Ok(None) for a channel without server id
\* and otherwise calls ServerId::server.
Channel_server(t) ==
    /\ acc[t].pc = "channel" /\ task[t].pc = "done"
    /\ LET r == task[t].result
           sid == server_id(r.ent)
           a == [acc[t] EXCEPT !.fetches = task[t].nfetch, !.chan = r]
       IN  IF r.tag = "err"
           THEN /\ acc' = [acc EXCEPT ![t] = [a EXCEPT !.pc = "done", !.result = AccErr(r.err)]]
                /\ UNCHANGED funnel
           ELSE IF sid = 0
           THEN /\ acc' = [acc EXCEPT ![t] = [a EXCEPT !.pc = "done", !.result = AccOkNone]]
                /\ UNCHANGED funnel
           ELSE /\ server(t, sid)
                /\ acc' = [acc EXCEPT ![t] =
                             [a EXCEPT !.pc = "server", !.lookups = 1,
                                       !.hits = @ + IF Cached("server", sid) THEN 1 ELSE 0]]
    /\ UNCHANGED <<link, mirror, applied, outbox>>

\* The server resolution returned: `Ok(Some(server_id.server(ctx).await?))`.
Channel_server_return(t) ==
    /\ acc[t].pc = "server" /\ task[t].pc = "done"
    /\ LET r == task[t].result
       IN  acc' = [acc EXCEPT ![t].pc = "done",
                              ![t].fetches = @ + task[t].nfetch,
                              ![t].result = IF r.tag = "ok" THEN AccOkSome(r.ent)
                                            ELSE AccErr(r.err)]
    /\ UNCHANGED <<funnel, link, mirror, applied, outbox>>

\* The caches the funnel can have filled before an accessor is called.
Caches ==
    {[k \in Resolvers |->
        [i \in Ids |-> IF k = "user" \/ p[k][i] = 0 THEN Absent ELSE Entity(i, p[k][i])]] :
        p \in [{"channel", "server"} -> [Ids -> 0..NumVals]]}

\* ------------------------------------------------------------- replies
\* CreateMessage (45-50) and the builder methods the replies use (52-77).
CreateMessage_default == [content |-> 0, attachments |-> <<>>, replies |-> <<>>]
CreateMessage_content(m, c) == [m EXCEPT !.content = c]
CreateMessage_reply(m, r) == [m EXCEPT !.replies = Append(@, r)]

ReplyData(i, b) == [id |-> i, mention |-> b]

\* ChannelId::send_message (179-196): the closure fills a default
\* CreateMessage, whose parts go to the HTTP client's send_message for this
\* channel (with a fresh nonce, left out here).
send_message(ch, m) ==
    [channel |-> ch, content |-> m.content,
     attachments |-> m.attachments, replies |-> m.replies]

\* Message::reply (81-90).
reply(msg, c) ==
    /\ Len(outbox) < MaxCalls
    /\ outbox' = Append(outbox,
          [by |-> "reply", to |-> msg,
           req |-> send_message(msg.channel,
                      CreateMessage_reply(CreateMessage_content(CreateMessage_default, c),
                                          ReplyData(msg.id, FALSE)))])
    /\ UNCHANGED <<funnel, link, mirror, applied, acc>>

\* Message::reply_ping (92-101).
reply_ping(msg, c) ==
    /\ Len(outbox) < MaxCalls
    /\ outbox' = Append(outbox,
          [by |-> "reply_ping", to |-> msg,
           req |-> send_message(msg.channel,
                      CreateMessage_reply(CreateMessage_content(CreateMessage_default, c),
                                          ReplyData(msg.id, FALSE)))])
    /\ UNCHANGED <<funnel, link, mirror, applied, acc>>

\* ------------------------------------------------------------- specification
Init ==
    /\ mode \in Modes
    /\ cache = EmptyCache
    /\ task = [t \in Tasks |-> Idle]
    /\ calls = 0
    /\ lastCommit = EmptyCache
    /\ link = NoLink
    /\ mirror = EmptyMirror
    /\ applied = NoApplied
    /\ acc = [t \in Tasks |-> AccIdle]
    /\ outbox = <<>>

\* The funnel alone: the connection, the patched entities, the composed
\* accessors and the replies stay as they are.
Next ==
    \E t \in Tasks :
        \/ \E i \in Ids : channel(t, i) /\ UNCHANGED quiet
        \/ \E v \in Vals : fetch_channel_ok(t, v) /\ UNCHANGED quiet
        \/ \E x \in Errs : fetch_channel_err(t, x) /\ UNCHANGED quiet
        \/ \E i \in Ids : server(t, i) /\ UNCHANGED quiet
        \/ \E v \in Vals : fetch_server_ok(t, v) /\ UNCHANGED quiet
        \/ \E x \in Errs : fetch_server_err(t, x) /\ UNCHANGED quiet
        \/ \E i \in Ids : user(t, i) /\ UNCHANGED quiet
        \/ \E v \in Vals : fetch_user_ok(t, v) /\ UNCHANGED quiet
        \/ \E x \in Errs : fetch_user_err(t, x) /\ UNCHANGED quiet
        \/ Cancel(t) /\ UNCHANGED quiet

Spec == Init /\ [][Next]_vars

\* The connection: messages arrive and are decoded, events are encoded and sent.
NextWire ==
    \/ \E w \in Wires : ReceiveEvent(w)
    \/ \E v \in OutboundVariants : SendEvent(v)

SpecWire == Init /\ [][NextWire]_vars

\* One update event applied to a cache that holds any entities.
InitPatch ==
    /\ mode = "some"
    /\ cache = EmptyCache /\ lastCommit = EmptyCache
    /\ task = [t \in Tasks |-> Idle] /\ calls = 0
    /\ link = NoLink
    /\ mirror \in Mirrors
    /\ applied = NoApplied
    /\ acc = [t \in Tasks |-> AccIdle]
    /\ outbox = <<>>

NextPatch ==
    \E i \in PatchIds, d \in [FieldTags -> FieldVals], c \in ClearWire : on_update(i, d, c)

SpecPatch == InitPatch /\ [][NextPatch]_vars

\* The composed accessors, called with any cache the funnel can have filled.
InitDerived ==
    /\ mode \in Modes
    /\ cache \in (IF mode = "some" THEN Caches ELSE {EmptyCache})
    /\ lastCommit = cache
    /\ task = [t \in Tasks |-> Idle] /\ calls = 0
    /\ link = NoLink
    /\ mirror = EmptyMirror
    /\ applied = NoApplied
    /\ acc = [t \in Tasks |-> AccIdle]
    /\ outbox = <<>>

NextDerived ==
    \E t \in Tasks :
        \/ \E m \in Messages : Message_server(t, m)
        \/ \E i \in Ids : ChannelId_server(t, i)
        \/ \E v \in Vals : fetch_channel_ok(t, v) /\ UNCHANGED quiet
        \/ \E x \in Errs : fetch_channel_err(t, x) /\ UNCHANGED quiet
        \/ Channel_server(t)
        \/ \E v \in Vals : fetch_server_ok(t, v) /\ UNCHANGED quiet
        \/ \E x \in Errs : fetch_server_err(t, x) /\ UNCHANGED quiet
        \/ Channel_server_return(t)

SpecDerived == InitDerived /\ [][NextDerived]_vars

\* Replies to messages.
NextReply ==
    \E msg \in Messages, c \in Vals :
        \/ reply(msg, c)
        \/ reply_ping(msg, c)

SpecReply == Init /\ [][NextReply]_vars

TypeOK ==
    /\ mode \in Modes
    /\ cache \in [Resolvers -> [Ids -> Entities \cup {Absent}]]
    /\ calls \in 0..MaxCalls
    /\ \A t \in Tasks :
          task[t].pc \in {"idle", "fetch", "done", "cancelled"}

\* ------------------------------------------------------------- claims
Done(t) == task[t].pc = "done"

DoneOk(t) == Done(t) /\ task[t].result.tag = "ok"

\* C1: with a cache configured, a resolver call (channel, server or user) that
\* starts while the cache holds an entry for the requested id returns exactly
\* that entry, issues no fetch and leaves the cache as it was.
C1_HitReturnsCached ==
    [][\A t \in Tasks, k \in Resolvers, i \in Ids :
          (mode = "some" /\ cache[k][i] # Absent /\ ResolverCall(t, k, i))
          => /\ task'[t].pc = "done"
             /\ task'[t].result = Ok(cache[k][i])
             /\ task'[t].nfetch = 0
             /\ cache' = cache]_vars

\* A call that hit: it is finished with Ok and has fetched nothing.
C1_Witness ==
    \E t \in Tasks :
        /\ mode = "some" /\ DoneOk(t) /\ task[t].nfetch = 0
        /\ task[t].result.ent = cache[task[t].kind][task[t].id]

\* C2: with a cache configured, a task that received Ok from a resolver and
\* calls the same resolver for the same id again, no commit of that id having
\* happened in between, gets the same entity, and the two calls together
\* issued at most one fetch.
C2_SecondCallHits ==
    [][\A t \in Tasks, k \in Resolvers, i \in Ids :
          (/\ mode = "some"
           /\ DoneOk(t) /\ task[t].kind = k /\ task[t].id = i
           /\ ~task[t].touched
           /\ ResolverCall(t, k, i))
          => /\ task'[t].pc = "done"
             /\ task'[t].result = task[t].result
             /\ task[t].nfetch + task'[t].nfetch <= 1]_vars

\* One task made both calls of the run and the second one hit: the cache was
\* empty at first, so its first call fetched and committed the entry.
C2_Witness ==
    \E t \in Tasks :
        /\ mode = "some" /\ calls = 2
        /\ \A u \in Tasks \ {t} : task[u].pc = "idle"
        /\ DoneOk(t) /\ task[t].nfetch = 0

\* C3: a call that missed and whose fetch succeeded returns exactly the entity
\* the fetch returned, and with a cache configured the cache holds that
\* entity under the requested id when the call returns, and until another
\* call commits that id.
C3_CommittedBeforeReturn ==
    \A t \in Tasks :
        (DoneOk(t) /\ task[t].nfetch = 1)
        => /\ task[t].result.ent = task[t].fetched
           /\ task[t].fetched.id = task[t].id
           /\ (mode = "some" /\ ~task[t].touched)
              => cache[task[t].kind][task[t].id] = task[t].result.ent

C3_Witness ==
    \E t \in Tasks :
        /\ mode = "some" /\ DoneOk(t) /\ task[t].nfetch = 1
        /\ cache[task[t].kind][task[t].id] = task[t].fetched

\* C4: when the fetch of a call fails, the call returns the error of the
\* fetch, nothing is committed and the cache is left as it was.
C4_FetchErrorSurfaces ==
    [][\A t \in Tasks, k \in Resolvers, x \in Errs :
          ResolverFetchErr(t, k, x)
          => /\ task'[t].pc = "done"
             /\ task'[t].result = Err(x)
             /\ cache' = cache
             /\ lastCommit' = lastCommit]_vars

\* A call finished with the error of its fetch, here the second error value.
C4_Witness ==
    \E t \in Tasks :
        /\ Done(t) /\ task[t].result.tag = "err"
        /\ task[t].ferr = NumErrs /\ task[t].result.err = NumErrs

\* C5: no invocation of a resolver issues more than one fetch, whether it
\* hits, misses and succeeds, misses and fails, or runs without a cache.
C5_AtMostOneFetch == \A t \in Tasks : task[t].nfetch <= 1

\* A call whose one fetch failed: it is finished, not fetching again.
C5_Witness ==
    \E t \in Tasks :
        Done(t) /\ task[t].result.tag = "err" /\ task[t].nfetch = 1

\* C6: without a cache (feature off, or ctx.cache() absent) every resolver
\* call issues exactly one fetch and waits for it, a successful fetch is
\* returned unchanged, the only failure is the error of the fetch, nothing is
\* stored, and a second call made in sequence for the same id fetches again:
\* two calls, two fetches.
C6_NoCacheAlwaysFetches ==
    [][mode # "some" =>
         /\ cache' = EmptyCache
         /\ \A t \in Tasks, k \in Resolvers :
               /\ \A i \in Ids :
                     ResolverCall(t, k, i)
                     => /\ task'[t].pc = "fetch"
                        /\ task'[t].nfetch = 1
                        /\ (Done(t) /\ task[t].kind = k /\ task[t].id = i)
                           => task[t].nfetch + task'[t].nfetch = 2
               /\ \A v \in Vals :
                     ResolverFetchOk(t, k, v)
                     => /\ task'[t].pc = "done"
                        /\ task'[t].nfetch = 1
                        /\ task'[t].result = Ok(Entity(task[t].id, v))
               /\ \A x \in Errs :
                     ResolverFetchErr(t, k, x)
                     => /\ task'[t].pc = "done"
                        /\ task'[t].nfetch = 1
                        /\ task'[t].result = Err(x)]_vars

\* Built without the cache feature, one task made both calls of the run, and
\* its second call fetched too and returned what it fetched.
C6_Witness ==
    \E t \in Tasks :
        /\ mode = "off" /\ calls = 2
        /\ \A u \in Tasks \ {t} : task[u].pc = "idle"
        /\ DoneOk(t) /\ task[t].nfetch = 1
        /\ task[t].result.ent = task[t].fetched

\* C7: under every interleaving of concurrent calls, a call that fetched
\* returns the entity of its own fetch and a call that hit returns an entity
\* of the requested id; and for every id that was committed the cache holds
\* exactly the entity of the last commit, never another value and never no
\* entry.
C7_LastCommitWins ==
    /\ \A t \in Tasks :
          DoneOk(t) =>
             IF task[t].nfetch = 1
             THEN task[t].result.ent = task[t].fetched
             ELSE /\ mode = "some"
                  /\ task[t].result.ent.id = task[t].id
                  /\ ~task[t].touched
                     => task[t].result.ent = cache[task[t].kind][task[t].id]
    /\ mode = "some" =>
          \A k \in Resolvers, i \in Ids :
             lastCommit[k][i] # Absent => cache[k][i] = lastCommit[k][i]

\* Two calls for one id both missed, both fetched (different values) and both
\* committed; the cache holds one of the two, the last.
C7_Witness ==
    \E t, u \in Tasks :
        /\ t # u /\ mode = "some"
        /\ DoneOk(t) /\ DoneOk(u)
        /\ task[t].nfetch = 1 /\ task[u].nfetch = 1
        /\ task[t].kind = task[u].kind /\ task[t].id = task[u].id
        /\ task[t].fetched # task[u].fetched
        /\ task[t].touched /\ ~task[u].touched
        /\ cache[task[u].kind][task[u].id] = task[u].fetched

\* C8: a call writes to the cache only when its fetch has returned Ok: its
\* call step and its cancellation leave the cache as it is, so a call
\* dropped while it waits for the fetch has written nothing.
C8_CancelWritesNothing ==
    [][/\ \A t \in Tasks :
             /\ Cancel(t) => (cache' = cache /\ lastCommit' = lastCommit)
             /\ \A k \in Resolvers, i \in Ids :
                   ResolverCall(t, k, i) => cache' = cache
       /\ cache' # cache
          => \E t \in Tasks, k \in Resolvers, v \in Vals :
                /\ task[t].pc = "fetch"
                /\ ResolverFetchOk(t, k, v)]_vars

\* The one call of the run was dropped during its fetch; the cache is as it
\* was before the call.
C8_Witness ==
    \E t \in Tasks :
        /\ mode = "some" /\ calls = 1
        /\ task[t].pc = "cancelled"
        /\ cache = EmptyCache

\* The generic resolve: look the id up in the partition of kind k, return a
\* hit; else fetch; return a failure of the fetch; else commit what was
\* fetched and return it.
GenericCall(t, k, i) ==
    /\ CanCall(t)
    /\ calls' = calls + 1
    /\ LET got == IF mode = "some" THEN cache[k][i] ELSE Absent
       IN task' = [task EXCEPT ![t] =
                     IF got # Absent
                     THEN [Begin(k, i) EXCEPT !.pc = "done", !.result = Ok(got)]
                     ELSE [Begin(k, i) EXCEPT !.pc = "fetch", !.nfetch = 1]]
    /\ UNCHANGED <<mode, cache, lastCommit>>

GenericFetchOk(t, k, v) ==
    /\ task[t].pc = "fetch" /\ task[t].kind = k
    /\ LET e == Entity(task[t].id, v)
       IN /\ cache' = IF mode = "some" THEN [cache EXCEPT ![k][e.id] = e]
                                       ELSE cache
          /\ lastCommit' = IF mode = "some"
                           THEN [lastCommit EXCEPT ![k][e.id] = e]
                           ELSE lastCommit
          /\ task' = Finish(t, [task[t] EXCEPT !.pc = "done", !.fetched = e,
                                               !.result = Ok(e)], k, e.id)
    /\ UNCHANGED <<mode, calls>>

GenericFetchErr(t, k, x) ==
    /\ task[t].pc = "fetch" /\ task[t].kind = k
    /\ task' = [task EXCEPT ![t].pc = "done", ![t].ferr = x,
                            ![t].result = Err(x)]
    /\ UNCHANGED <<mode, cache, calls, lastCommit>>

\* The entity kinds the claim names.
ClaimedKinds == {"channel", "server", "user", "member"}

\* C9 (as amended): for each of the three kinds that have a resolver,
\* channel, server and user, and every step that counts a call or changes a
\* task: it is a step of the resolver of that kind exactly when it is that
\* step of the generic resolve for the kind, so the three give the same hit,
\* miss, failure and no-cache outcomes.
C9_ThreeKindsUniform ==
    [][\A t \in Tasks :
          (task'[t] # task[t] \/ calls' # calls) =>
             \A k \in Resolvers :
                /\ \A i \in Ids :
                      ResolverCall(t, k, i) <=> GenericCall(t, k, i)
                /\ \A v \in Vals :
                      ResolverFetchOk(t, k, v) <=> GenericFetchOk(t, k, v)
                /\ \A x \in Errs :
                      ResolverFetchErr(t, k, x) <=> GenericFetchErr(t, k, x)]_vars

\* The user resolver has run its miss path and its hit path: a user call hit
\* what an earlier user call fetched and committed.
C9_Witness ==
    \E t \in Tasks :
        /\ mode = "some" /\ DoneOk(t) /\ task[t].kind = "user"
        /\ task[t].nfetch = 0
        /\ task[t].result.ent = cache["user"][task[t].id]

\* C9 (as claimed): each of the four kinds channel, server, user and member
\* has a resolver that a task free to call can call.
C9_FourKinds ==
    \A t \in Tasks :
        CanCall(t) =>
           \A k \in ClaimedKinds : \E i \in Ids : ENABLED ResolverCall(t, k, i)

\* C10: committing an entity a second time leaves the cache as the first
\* commit left it, with a cache and without one, from every reachable cache
\* state and for every entity of every kind.
C10_CommitIdempotent ==
    \A k \in Resolvers, e \in Entities :
        LET once == commit_to_cache(mode, cache, k, e)
            twice == commit_to_cache(mode, once.cache, k, once.ret)
        IN /\ twice.cache = once.cache
           /\ twice.ret = e
           /\ mode = "some" => once.cache[k][e.id] = e

\* Two calls fetched the same entity and both committed it; the cache holds
\* it once, under its id.
C10_Witness ==
    \E t, u \in Tasks :
        /\ t # u /\ mode = "some"
        /\ DoneOk(t) /\ DoneOk(u)
        /\ task[t].nfetch = 1 /\ task[u].nfetch = 1
        /\ task[t].kind = task[u].kind
        /\ task[t].fetched = task[u].fetched
        /\ cache[task[t].kind][task[t].id] = task[t].fetched

\* ---- the event protocol (under SpecWire)
Received == link.dir = "in"

Complete(w) == w.type \in InboundVariants /\ Required(w.type) \subseteq Present(w)

\* The set of tags a value under "clear" lists.
WireClearSet(c) ==
    CASE c \in FieldTags -> {c}
      [] c = "both" -> FieldTags
      [] OTHER -> {}

\* C11, as stated: each of the six update events (MessageUpdate, ChannelUpdate,
\* ServerUpdate, ServerMemberUpdate, ServerRoleUpdate, UserUpdate) carries a
\* `clear` that is a set of field tags, so that a message listing any set of
\* tags under "clear", two or more included, decodes to an event that clears
\* exactly those fields.
C11_ClearIsAnySet ==
    (/\ Received
     /\ link.wire.type \in UpdateVariants
     /\ Complete(link.wire)
     /\ link.wire.clear # "bogus")
    => /\ link.event.tag = "ok"
       /\ ClearSet(link.event.clear) = WireClearSet(link.wire.clear)

\* C11, amended: ChannelUpdate, ServerUpdate, ServerMemberUpdate,
\* ServerRoleUpdate and UserUpdate carry `data` and an independent optional
\* `clear` that holds at most one field tag: the decoded event clears no field
\* or the one field named, and a message that lists two tags is a decode
\* error.  MessageUpdate carries `data` and no `clear`: it clears no field.
C11_ClearIsAtMostOneTag ==
    (Received /\ link.wire.type \in UpdateVariants)
    => /\ link.event.tag = "ok"
          => /\ "data" \in Present(link.wire)
             /\ Cardinality(ClearSet(link.event.clear)) <= 1
             /\ link.wire.type = "MessageUpdate" => link.event.clear = "none"
             /\ (link.wire.type \in ClearVariants /\ link.wire.clear \in FieldTags)
                => link.event.clear = link.wire.clear
       /\ (link.wire.type \in ClearVariants /\ link.wire.clear = "both")
          => link.event.tag = "err"

\* An update event was decoded that clears one field while its patch is there.
C11_Witness ==
    /\ Received
    /\ link.wire.type = "ChannelUpdate"
    /\ link.event.tag = "ok"
    /\ link.event.clear = "status"
    /\ "data" \in link.wire.keys

\* C12: a ChannelUpdate, ServerUpdate, ServerMemberUpdate, ServerRoleUpdate or
\* UserUpdate message without the key "clear" (and with its other fields)
\* decodes, to an event whose clear is absent: it clears no field.
C12_OmittedClearIsAbsent ==
    (/\ Received
     /\ link.wire.type \in ClearVariants
     /\ link.wire.clear = "absent"
     /\ InboundFields(link.wire.type) \ {"clear"} \subseteq link.wire.keys)
    => /\ link.event.tag = "ok"
       /\ link.event.variant = link.wire.type
       /\ link.event.clear = "none"
       /\ ClearSet(link.event.clear) = {}

\* A UserUpdate without "clear" was decoded.
C12_Witness ==
    /\ Received
    /\ link.wire.type = "UserUpdate"
    /\ link.wire.clear = "absent"
    /\ link.wire.keys = {"id", "data"}
    /\ link.event.tag = "ok"
    /\ link.event.clear = "none"

\* ---- patch and clear (under SpecPatch)
\* The update was applied to an entity that was cached.
Patched == applied.done /\ applied.before[applied.ev.id] # NoRecord

\* C13: applying an update event applies the patch first and the clears after:
\* a field named in clear ends empty even when data sets it, and a field that
\* data sets and clear does not name takes the value of data.
C13_ClearWins ==
    Patched =>
        LET ev == applied.ev
            after == mirror[ev.id]
        IN  \A f \in FieldTags :
                /\ f \in ClearSet(ev.clear) => after.fields[f] = 0
                /\ (f \notin ClearSet(ev.clear) /\ ev.data[f] # 0)
                   => after.fields[f] = ev.data[f]

\* A field that held a value was named in both data and clear, and is empty.
C13_Witness ==
    /\ Patched
    /\ \E f \in FieldTags :
          /\ applied.before[applied.ev.id].fields[f] # 0
          /\ applied.ev.data[f] # 0
          /\ applied.ev.clear = f
          /\ mirror[applied.ev.id].fields[f] = 0

\* C14: applying an update event changes only the fields its data or its clear
\* names: every other field of the entity, the entity's id and the entities
\* under other ids are as they were.
C14_FrameOfUpdate ==
    applied.done =>
        LET ev == applied.ev
        IN  /\ mirror[ev.id].id = applied.before[ev.id].id
            /\ \A f \in FieldTags :
                  (ev.data[f] = 0 /\ f \notin ClearSet(ev.clear))
                  => mirror[ev.id].fields[f] = applied.before[ev.id].fields[f]
            /\ \A j \in PatchIds : j # ev.id => mirror[j] = applied.before[j]

\* An update patched one field and cleared nothing: the other field, which
\* held a value, and an entity under another id are as they were.
C14_Witness ==
    /\ Patched
    /\ applied.ev.clear = "none"
    /\ applied.ev.data["nickname"] = 0
    /\ applied.ev.data["status"] # 0
    /\ applied.ev.data["status"] # applied.before[applied.ev.id].fields["status"]
    /\ mirror[applied.ev.id].fields["status"] = applied.ev.data["status"]
    /\ mirror[applied.ev.id].fields["nickname"] # 0
    /\ \E j \in PatchIds : j # applied.ev.id /\ mirror[j] # NoRecord

\* ---- the event protocol, continued (under SpecWire)
Sent == link.dir = "out"

\* C15: Authenticate and AuthenticateBot are both written with the
\* discriminator "Authenticate"; BeginTyping, EndTyping and Ping are written
\* with their own names, which no other outbound variant is written with.
C15_OutboundDiscriminators ==
    Sent =>
        /\ link.variant \in {"Authenticate", "AuthenticateBot"}
           => link.wire.type = "Authenticate"
        /\ link.variant \in {"BeginTyping", "EndTyping", "Ping"}
           => /\ link.wire.type = link.variant
              /\ \A u \in OutboundVariants \ {link.variant} :
                    Serialize(u).type # link.wire.type

\* An AuthenticateBot event was written, as "Authenticate" with its token.
C15_Witness ==
    /\ Sent
    /\ link.variant = "AuthenticateBot"
    /\ link.wire.type = "Authenticate"
    /\ link.wire.keys = {"token"}

\* C16: a message whose "type" is no inbound variant, or that lacks a field its
\* variant requires, decodes to an error and to no event (no variant catches
\* what the others do not match), and the cache is as it was.
C16_BadMessageIsDecodeError ==
    [][(link.dir = "none" /\ link'.dir = "in" /\ ~Complete(link'.wire))
       => /\ link'.event.tag = "err"
          /\ link'.event.variant = "none"
          /\ cache' = cache /\ mirror' = mirror]_vars

\* A message of unknown type and a message lacking a required field were
\* received: each is a decode error.
C16_Witness ==
    /\ Received
    /\ link.event.tag = "err"
    /\ \/ link.wire.type = "Bogus"
       \/ link.wire.type = "ChannelAck" /\ link.wire.keys = {"id", "user"}

\* C17, as stated: a message of type "Error" with a string under "message"
\* decodes to the Error variant holding that string.
C17_ErrorTextUnderMessage ==
    (Received /\ link.wire.type = "Error" /\ "message" \in link.wire.keys)
    => /\ link.event.tag = "ok"
       /\ link.event.variant = "Error"
       /\ link.event.text = link.wire.text

\* C17, amended: the Error event carries its text in the field `error`: a
\* message of type "Error" with a string under "error" decodes to the Error
\* variant holding that string, and one without "error" is a decode error,
\* whether or not it has a "message".
C17_ErrorTextUnderError ==
    (Received /\ link.wire.type = "Error")
    => IF "error" \in link.wire.keys
       THEN /\ link.event.tag = "ok"
            /\ link.event.variant = "Error"
            /\ link.event.text = link.wire.text
       ELSE link.event.tag = "err"

\* An Error message with its text under "error" was decoded.
C17_Witness ==
    /\ Received
    /\ link.wire.type = "Error"
    /\ link.wire.keys = {"error"}
    /\ link.event.tag = "ok"
    /\ link.event.variant = "Error"
    /\ link.event.text = link.wire.text
    /\ link.wire.text # 0

\* ---- the composed accessors (under SpecDerived)
\* C18: Message::server and ChannelId::server resolve the channel first and
\* the server only when the channel has a server id.  A channel without server
\* id gives Ok(None) and an error of the channel resolution is returned, in
\* both cases with no server lookup or fetch.  A call makes at most two fetches,
\* one per resolution that missed the cache: none when both were cached.
C18_ChannelThenServer ==
    \A t \in Tasks :
        LET a == acc[t]
        IN  /\ a.pc = "server"
               => /\ a.chan.tag = "ok" /\ server_id(a.chan.ent) # 0
                  /\ task[t].kind = "server" /\ task[t].id = server_id(a.chan.ent)
            /\ a.pc = "channel" => task[t].kind = "channel" /\ a.lookups = 0
            /\ a.pc = "done"
               => /\ a.fetches + a.hits = 1 + a.lookups
                  /\ a.fetches <= 2
                  /\ a.lookups = 1 <=> a.chan.tag = "ok" /\ server_id(a.chan.ent) # 0
                  /\ a.chan.tag = "err" => a.result = AccErr(a.chan.err)
                  /\ (a.chan.tag = "ok" /\ server_id(a.chan.ent) = 0)
                     => a.result = AccOkNone
                  /\ a.result.tag = "ok_some"
                     => a.result.ent.id = server_id(a.chan.ent)

\* A call fetched the channel and then its server.
C18_Witness ==
    \E t \in Tasks :
        /\ acc[t].pc = "done"
        /\ acc[t].result.tag = "ok_some"
        /\ acc[t].fetches = 2
        /\ acc[t].lookups = 1

\* ---- the partitions of the cache (under Spec)
\* C19: each kind owns its partition.  A resolver call of a kind is answered
\* from the entry of its id in the partition of that kind alone and writes
\* nothing; an entry of a partition changes only when a fetch of that kind for
\* that id succeeds, to the entity that fetch returned, under the entity's own
\* id, and no other entry changes with it.  So every entry is a value that a
\* successful fetch of its kind returned, stored under its own id.
C19_PartitionsOwnTheirKind ==
    [][/\ \A k \in Resolvers, i \in Ids :
             cache'[k][i] # cache[k][i]
             => /\ cache'[k][i].id = i
                /\ cache'[k][i] = lastCommit'[k][i]
                /\ \E t \in Tasks :
                      /\ task[t].pc = "fetch" /\ task[t].kind = k /\ task[t].id = i
                      /\ task'[t].pc = "done"
                      /\ task'[t].fetched = cache'[k][i]
                      /\ task'[t].result = Ok(cache'[k][i])
                /\ \A k2 \in Resolvers, i2 \in Ids :
                      (k2 # k \/ i2 # i) => cache'[k2][i2] = cache[k2][i2]
       /\ \A t \in Tasks, k \in Resolvers, i \in Ids :
             ResolverCall(t, k, i)
             => /\ cache' = cache
                /\ IF mode = "some" /\ cache[k][i] # Absent
                   THEN task'[t].pc = "done" /\ task'[t].result = Ok(cache[k][i])
                   ELSE task'[t].pc = "fetch"]_vars

\* The channel and the server partition hold different entities under the
\* same id, each the one a fetch of its kind returned.
C19_Witness ==
    /\ cache["channel"][1] # Absent
    /\ cache["server"][1] # Absent
    /\ cache["channel"][1] # cache["server"][1]
    /\ cache["user"][1] = Absent
    /\ cache["channel"][1] = lastCommit["channel"][1]
    /\ cache["server"][1] = lastCommit["server"][1]

\* ---- replies (under SpecReply)
\* C20: reply and reply_ping each hand one send-message request to the HTTP
\* client, for the channel of the message replied to, with a single reply
\* reference to that message's id; the reference of reply has mention = false
\* and the reference of reply_ping has mention = true.
C20_ReplyPingMentions ==
    \A n \in 1..Len(outbox) :
        LET s == outbox[n]
        IN  /\ s.req.channel = s.to.channel
            /\ s.req.replies = <<ReplyData(s.to.id, s.by = "reply_ping")>>

====
